---- MODULE Spec2Model ----
(***************************************************************************)
(* Model of Bot_7.py: the validated fields (Phone, Birthday), the contact  *)
(* Record, the AddressBook with its upcoming-birthday query, the command   *)
(* handlers and the command loop.                                          *)
(*                                                                         *)
(* Python strings are sequences of one-character strings, so that len(),   *)
(* isdigit(), the regular expression, strptime(), strftime(), int(),       *)
(* lower() and split() are computed character by character.  Dates are     *)
(* records [year, month, day] with the proleptic Gregorian ordinal of      *)
(* datetime.date.                                                          *)
(***************************************************************************)
EXTENDS Integers, Sequences, FiniteSets, TLC

VARIABLES
    rec,      \* a Record object driven directly through its methods
    book,     \* AddressBook.data: insertion-ordered sequence of [key, rec]
    last,     \* the last call: [op, name, a1, a2, res]
    pc,       \* position of main(): "loop", "exited" or "crashed"
    line,     \* the last line read by input()
    out,      \* what the last turn of the loop printed
    today,    \* datetime.now().date() as read by the query
    days,     \* the argument of the last get_upcoming_birthdays call
    result    \* its outcome: [exc, list]

vars == <<rec, book, last, pc, line, out, today, days, result>>

----------------------------------------------------------------------------
(* Bounds                                                                  *)

MaxPhones == 2      \* longest phone list explored
MaxDays == 7        \* largest `days` argument of the birthday query
TodaySpan == 75     \* number of days the clock advances past TodayFirst

----------------------------------------------------------------------------
(* Characters and strings                                                  *)

DigitChars == <<"0", "1", "2", "3", "4", "5", "6", "7", "8", "9">>

Digits == {DigitChars[i] : i \in 1..10}

LowerLetters ==
    <<"a", "b", "c", "d", "e", "f", "g", "h", "i", "j", "k", "l", "m", 
      "n", "o", "p", "q", "r", "s", "t", "u", "v", "w", "x", "y", "z">>

UpperLetters ==
    <<"A", "B", "C", "D", "E", "F", "G", "H", "I", "J", "K", "L", "M", 
      "N", "O", "P", "Q", "R", "S", "T", "U", "V", "W", "X", "Y", "Z">>

Letters == {LowerLetters[i] : i \in 1..26} \cup {UpperLetters[i] : i \in 1..26}

\* str.isdigit() on one character
IsDigit(c) == c \in Digits

\* the regular expression's \w on one character
IsWord(c) == c \in Digits \cup Letters \cup {"_"}

DigitVal(c) == (CHOOSE i \in 1..10 : DigitChars[i] = c) - 1

\* value of a non-empty string of decimal digits
RECURSIVE DecVal(_)
DecVal(s) ==
    IF Len(s) = 0 THEN 0
    ELSE 10 * DecVal(SubSeq(s, 1, Len(s) - 1)) + DigitVal(s[Len(s)])

AllDigits(s) == \A i \in 1..Len(s) : IsDigit(s[i])

TwoDigits(n) == <<DigitChars[((n \div 10) % 10) + 1], DigitChars[(n % 10) + 1]>>

FourDigits(n) == TwoDigits(n \div 100) \o TwoDigits(n % 100)

----------------------------------------------------------------------------
(* datetime.date                                                           *)

None == [year |-> 0, month |-> 0, day |-> 0]

MAXORDINAL == 3652059   \* date.max.toordinal()

IsLeap(y) == (y % 4 = 0) /\ ((y % 100 # 0) \/ (y % 400 = 0))

DaysInMonth(y, m) ==
    IF m = 2 THEN (IF IsLeap(y) THEN 29 ELSE 28)
    ELSE IF m \in {4, 6, 9, 11} THEN 30 ELSE 31

DaysBeforeYear(y) ==
    (y - 1) * 365 + (y - 1) \div 4 - (y - 1) \div 100 + (y - 1) \div 400

\* days of a common year before the first of each month
CumulativeDays == <<0, 31, 59, 90, 120, 151, 181, 212, 243, 273, 304, 334>>

DaysBeforeMonth(y, m) == CumulativeDays[m] + (IF m > 2 /\ IsLeap(y) THEN 1 ELSE 0)

\* date(y, m, d) succeeds
ValidDate(y, m, d) ==
    /\ y \in 1..9999
    /\ m \in 1..12
    /\ d \in 1..DaysInMonth(y, m)

ToOrdinal(dt) == DaysBeforeYear(dt.year) + DaysBeforeMonth(dt.year, dt.month) + dt.day

\* date.fromordinal: the 400/100/4/1-year cycle decomposition
FromOrdinal(n) ==
    LET n0   == n - 1
        n400 == n0 \div 146097
        r400 == n0 % 146097
        n100 == r400 \div 36524
        r100 == r400 % 36524
        n4   == r100 \div 1461
        r4   == r100 % 1461
        n1   == r4 \div 365
        r1   == r4 % 365
        y    == n400 * 400 + 1 + n100 * 100 + n4 * 4 + n1
    IN  IF n1 = 4 \/ n100 = 4
        THEN [year |-> y - 1, month |-> 12, day |-> 31]
        ELSE LET guess == (r1 + 50) \div 32
                 m     == IF DaysBeforeMonth(y, guess) > r1 THEN guess - 1 ELSE guess
             IN  [year |-> y, month |-> m, day |-> r1 - DaysBeforeMonth(y, m) + 1]

\* date.weekday(): Monday is 0, Sunday is 6
Weekday(dt) == (ToOrdinal(dt) + 6) % 7

\* date + timedelta(days=k)
AddDays(dt, k) == FromOrdinal(ToOrdinal(dt) + k)

\* dt1 < dt2
DateLess(d1, d2) == ToOrdinal(d1) < ToOrdinal(d2)

\* date.replace(year=y): [exc, value]
Replace(dt, y) ==
    IF ValidDate(y, dt.month, dt.day)
    THEN [exc |-> "", value |-> [year |-> y, month |-> dt.month, day |-> dt.day]]
    ELSE [exc |-> "day is out of range for month", value |-> None]

\* date.strftime("%d.%m.%Y") for a four-digit year
Strftime(dt) ==
    TwoDigits(dt.day) \o <<".">> \o TwoDigits(dt.month) \o <<".">> \o FourDigits(dt.year)

----------------------------------------------------------------------------
(* Field, Phone, Birthday                                                  *)

\* the condition of Phone.__init__
PhoneValid(value) == Len(value) = 10 /\ AllDigits(value)

\* Phone(value): [exc, value]
Phone(value) ==
    IF PhoneValid(value)
    THEN [exc |-> "", value |-> value]
    ELSE [exc |-> "Invalid phone number format: must be exactly 10 digits", value |-> <<>>]

\* the pattern \b\d{2}\.\d{2}\.\d{4}\b matches s at position i
PatternAt(s, i) ==
    /\ i + 9 <= Len(s)
    /\ \A k \in {0, 1, 3, 4, 6, 7, 8, 9} : IsDigit(s[i + k])
    /\ s[i + 2] = "." /\ s[i + 5] = "."
    /\ (i = 1 \/ ~IsWord(s[i - 1]))
    /\ (i + 9 = Len(s) \/ ~IsWord(s[i + 10]))

\* re.search(pattern, value) finds a match
RegexSearch(s) == \E i \in 1..Len(s) : PatternAt(s, i)

\* strptime's %d: 3[0-1]|[1-2]\d|0[1-9]|[1-9]| [1-9]
DayField(f) ==
    \/ Len(f) = 1 /\ IsDigit(f[1]) /\ f[1] # "0"
    \/ /\ Len(f) = 2
       /\ \/ f[1] = "3" /\ f[2] \in {"0", "1"}
          \/ f[1] \in {"1", "2"} /\ IsDigit(f[2])
          \/ f[1] \in {"0", " "} /\ IsDigit(f[2]) /\ f[2] # "0"

\* strptime's %m: 1[0-2]|0[1-9]|[1-9]
MonthField(f) ==
    \/ Len(f) = 1 /\ IsDigit(f[1]) /\ f[1] # "0"
    \/ /\ Len(f) = 2
       /\ \/ f[1] = "1" /\ f[2] \in {"0", "1", "2"}
          \/ f[1] = "0" /\ IsDigit(f[2]) /\ f[2] # "0"

\* strptime's %Y: \d\d\d\d
YearField(f) == Len(f) = 4 /\ AllDigits(f)

FieldVal(f) == IF f[1] = " " THEN DecVal(Tail(f)) ELSE DecVal(f)

\* datetime.strptime(s, '%d.%m.%Y').date(): [exc, value]
Strptime(s) ==
    LET dots == {i \in 1..Len(s) : s[i] = "."}
        bad  == [exc |-> "time data does not match format", value |-> None]
    IN  IF Cardinality(dots) # 2 THEN bad
        ELSE LET d1 == CHOOSE i \in dots : \A j \in dots : i <= j
                 d2 == CHOOSE i \in dots : \A j \in dots : j <= i
                 fd == SubSeq(s, 1, d1 - 1)
                 fm == SubSeq(s, d1 + 1, d2 - 1)
                 fy == SubSeq(s, d2 + 1, Len(s))
             IN  IF ~(DayField(fd) /\ MonthField(fm) /\ YearField(fy)) THEN bad
                 ELSE IF ~ValidDate(DecVal(fy), FieldVal(fm), FieldVal(fd))
                      THEN [exc |-> "day is out of range for month", value |-> None]
                      ELSE [exc |-> "",
                            value |-> [year |-> DecVal(fy), month |-> FieldVal(fm),
                                       day |-> FieldVal(fd)]]

\* Birthday that skips the pattern search and relies on strptime alone
Birthday_strptime_only(value) ==
    LET bad == [exc |-> "Invalid date format. Use DD.MM.YYYY", value |-> None]
        parsed == Strptime(value)
    IN  IF parsed.exc = "" THEN parsed ELSE bad

\* Birthday(value): [exc, value]
Birthday(value) ==
    LET bad == [exc |-> "Invalid date format. Use DD.MM.YYYY", value |-> None]
        parsed == Strptime(value)
    IN  IF RegexSearch(value)
        THEN (IF parsed.exc = "" THEN parsed ELSE bad)
        ELSE bad

----------------------------------------------------------------------------
(* Record                                                                  *)

\* Record(name)
Record(name) == [name |-> name, phones |-> <<>>, birthday |-> None]

\* index of the first phone whose value equals `phone`, 0 for None
Record_find_phone(r, phone) ==
    IF \E i \in 1..Len(r.phones) : r.phones[i] = phone
    THEN CHOOSE i \in 1..Len(r.phones) :
             /\ r.phones[i] = phone
             /\ \A j \in 1..(i - 1) : r.phones[j] # phone
    ELSE 0

\* add_phone inserting at the front of the list
Record_add_phone_front(r, phone) ==
    LET p == Phone(phone)
    IN  IF p.exc # ""
        THEN [exc |-> p.exc, rec |-> r]
        ELSE [exc |-> "", rec |-> [r EXCEPT !.phones = <<p.value>> \o @]]

\* record.add_phone(phone): [exc, rec]
Record_add_phone(r, phone) ==
    LET p == Phone(phone)
    IN  IF p.exc # ""
        THEN [exc |-> p.exc, rec |-> r]
        ELSE [exc |-> "", rec |-> [r EXCEPT !.phones = Append(@, p.value)]]

\* record.remove_phone(phone): [exc, rec]
Record_remove_phone(r, phone) ==
    LET i == Record_find_phone(r, phone)
    IN  IF i = 0 THEN [exc |-> "", rec |-> r]
        ELSE [exc |-> "",
              rec |-> [r EXCEPT !.phones =
                          SubSeq(@, 1, i - 1) \o SubSeq(@, i + 1, Len(@))]]

\* edit_phone rewriting every phone equal to old_phone
Record_edit_phone_all(r, old_phone, new_phone) ==
    IF Record_find_phone(r, old_phone) # 0
    THEN [exc |-> "",
          rec |-> [r EXCEPT !.phones =
                      [k \in 1..Len(@) |-> IF @[k] = old_phone THEN new_phone ELSE @[k]]]]
    ELSE [exc |-> "Phone not found", rec |-> r]

\* record.edit_phone(old_phone, new_phone): [exc, rec]
Record_edit_phone(r, old_phone, new_phone) ==
    LET i == Record_find_phone(r, old_phone)
    IN  IF i # 0
        THEN [exc |-> "", rec |-> [r EXCEPT !.phones[i] = new_phone]]
        ELSE [exc |-> "Phone not found", rec |-> r]

\* record.add_birthday(birthday): [exc, rec]
Record_add_birthday(r, birthday) ==
    LET bd == Birthday(birthday)
    IN  IF bd.exc # ""
        THEN [exc |-> bd.exc, rec |-> r]
        ELSE [exc |-> "", rec |-> [r EXCEPT !.birthday = bd.value]]

----------------------------------------------------------------------------
(* Inputs                                                                  *)

Al == <<"a", "l">>
Bo == <<"b", "o">>
Names == {Al, Bo}

P1 == <<"1", "2", "3", "4", "5", "6", "7", "8", "9", "0">>
P2 == <<"0", "9", "8", "7", "6", "5", "4", "3", "2", "1">>
ShortPhone == <<"1", "2", "3", "4", "5">>
AlphaPhone == <<"1", "2", "3", "4", "5", "a", "b", "c", "d", "e">>
PhoneArgs == {P1, P2, ShortPhone, AlphaPhone}

Jan10 == <<"1", "0", ".", "0", "1", ".", "1", "9", "9", "0">>
Feb29 == <<"2", "9", ".", "0", "2", ".", "2", "0", "0", "0">>
Feb31 == <<"3", "1", ".", "0", "2", ".", "2", "0", "0", "0">>
ShortDate == <<"1", ".", "1", ".", "2", "0", "0", "0">>
SpacedDate == <<"x", " ", "1", "0", ".", "0", "1", ".", "1", "9", "9", "0">>
LongDate == <<"1", "0", ".", "0", "1", ".", "1", "9", "9", "0", "1">>
DateArgs == {Jan10, Feb29, Feb31, ShortDate, SpacedDate, LongDate}

NoCall == [op |-> "", argc |-> 0, name |-> <<>>, a1 |-> <<>>, a2 |-> <<>>,
           obj |-> Record(<<>>), res |-> ""]

Call(op, argc, name, a1, a2, obj, res) ==
    [op |-> op, argc |-> argc, name |-> name, a1 |-> a1, a2 |-> a2,
     obj |-> obj, res |-> res]

NoOut == [kind |-> "none", msg |-> "", data |-> <<>>, entries |-> <<>>]

NoResult == [etype |-> "", exc |-> "", list |-> <<>>]

TodayFirst == [year |-> 2023, month |-> 12, day |-> 25]

----------------------------------------------------------------------------
(* A Record driven through its methods                                     *)

InitRecord ==
    /\ \E n \in Names : rec = Record(n)
    /\ book = <<>>
    /\ last = NoCall
    /\ pc = "loop"
    /\ line = <<>>
    /\ out = NoOut
    /\ today = TodayFirst
    /\ days = 0
    /\ result = NoResult

RecAddPhone(phone) ==
    /\ Len(rec.phones) < MaxPhones
    /\ LET r == Record_add_phone(rec, phone)
       IN  /\ rec' = r.rec
           /\ last' = Call("add_phone", 1, rec.name, phone, <<>>, Record(<<>>), r.exc)
    /\ UNCHANGED <<book, pc, line, out, today, days, result>>

RecRemovePhone(phone) ==
    /\ LET r == Record_remove_phone(rec, phone)
       IN  /\ rec' = r.rec
           /\ last' = Call("remove_phone", 1, rec.name, phone, <<>>, Record(<<>>), r.exc)
    /\ UNCHANGED <<book, pc, line, out, today, days, result>>

RecEditPhone(old_phone, new_phone) ==
    /\ LET r == Record_edit_phone(rec, old_phone, new_phone)
       IN  /\ rec' = r.rec
           /\ last' = Call("edit_phone", 2, rec.name, old_phone, new_phone,
                           Record(<<>>), r.exc)
    /\ UNCHANGED <<book, pc, line, out, today, days, result>>

RecAddBirthday(birthday) ==
    /\ LET r == Record_add_birthday(rec, birthday)
       IN  /\ rec' = r.rec
           /\ last' = Call("add_birthday", 1, rec.name, birthday, <<>>, Record(<<>>), r.exc)
    /\ UNCHANGED <<book, pc, line, out, today, days, result>>

NextRecord ==
    \/ \E p \in PhoneArgs : RecAddPhone(p)
    \/ \E p \in PhoneArgs : RecRemovePhone(p)
    \/ \E p, q \in PhoneArgs : RecEditPhone(p, q)
    \/ \E b \in DateArgs : RecAddBirthday(b)

SpecRecord == InitRecord /\ [][NextRecord]_vars

\* C1: after any sequence of Record operations every stored phone is a
\* string of exactly 10 decimal digits (edit_phone does not store an illegal
\* new phone).
C1_StoredPhonesLegal ==
    \A i \in 1..Len(rec.phones) :
        Len(rec.phones[i]) = 10 /\ \A k \in 1..Len(rec.phones[i]) : rec.phones[i][k] \in Digits

\* C2: edit_phone(old, new) with no phone equal to old fails with "Phone not
\* found" and leaves the list unchanged; with a phone equal to old and a legal
\* new, exactly the first entry equal to old becomes new, and the length and
\* every other position are unchanged.
C2_EditPhone ==
    [][last'.op = "edit_phone" =>
         LET old == last'.a1
             new == last'.a2
             ps  == rec.phones
             qs  == rec'.phones
         IN  IF \A i \in 1..Len(ps) : ps[i] # old
             THEN last'.res = "Phone not found" /\ qs = ps
             ELSE PhoneValid(new) =>
                    /\ last'.res = ""
                    /\ Len(qs) = Len(ps)
                    /\ \E k \in 1..Len(ps) :
                          /\ ps[k] = old
                          /\ \A j \in 1..(k - 1) : ps[j] # old
                          /\ qs[k] = new
                          /\ \A j \in 1..Len(ps) : j # k => qs[j] = ps[j]]_vars

\* an edit succeeded on a list that held old twice: the first became new, the
\* second still holds old
C2_Witness ==
    /\ last.op = "edit_phone" /\ last.res = ""
    /\ PhoneValid(last.a2) /\ last.a1 # last.a2
    /\ Len(rec.phones) = 2
    /\ rec.phones[1] = last.a2 /\ rec.phones[2] = last.a1

----------------------------------------------------------------------------
(* AddressBook                                                             *)

\* position of key k in the dict, 0 when absent
KeyIndex(b, k) ==
    IF \E i \in 1..Len(b) : b[i].key = k
    THEN CHOOSE i \in 1..Len(b) : b[i].key = k /\ \A j \in 1..(i - 1) : b[j].key # k
    ELSE 0

\* a Python object handed to add_record
RecordObj(r) == [type |-> "Record", val |-> r]
StrObj == [type |-> "str", val |-> Record(<<>>)]

\* add_record that always inserts a new entry
AddressBook_add_record_append(b, obj) ==
    IF obj.type # "Record"
    THEN [exc |-> "Only Record objects can be added to the AddressBook.", book |-> b]
    ELSE [exc |-> "", book |-> Append(b, [key |-> obj.val.name, rec |-> obj.val])]

\* book.add_record(record): [exc, book]
AddressBook_add_record(b, obj) ==
    IF obj.type # "Record"
    THEN [exc |-> "Only Record objects can be added to the AddressBook.", book |-> b]
    ELSE LET i == KeyIndex(b, obj.val.name)
         IN  IF i # 0
             THEN [exc |-> "", book |-> [b EXCEPT ![i].rec = obj.val]]
             ELSE [exc |-> "", book |-> Append(b, [key |-> obj.val.name, rec |-> obj.val])]

\* book.find(name): the index of the record, 0 for None
AddressBook_find(b, name) == KeyIndex(b, name)

\* book.delete(name)
AddressBook_delete(b, name) ==
    LET i == KeyIndex(b, name)
    IN  IF i # 0 THEN SubSeq(b, 1, i - 1) \o SubSeq(b, i + 1, Len(b)) ELSE b

----------------------------------------------------------------------------
(* Command handlers                                                        *)

\* what the input_error wrapper catches
Caught == {"ValueError", "KeyError", "IndexError", "TypeError"}

\* add_contact(args, book): [ret, book]
add_contact(args, b) ==
    IF Len(args) < 2
    THEN [ret |-> "Please provide both a name and a phone number.", book |-> b]
    ELSE LET name  == args[1]
             phone == Phone(args[2])
         IN  IF phone.exc # "" THEN [ret |-> phone.exc, book |-> b]
             ELSE LET found == AddressBook_find(b, name) # 0
                      b1 == IF found THEN b
                            ELSE AddressBook_add_record(b, RecordObj(Record(name))).book
                      i  == AddressBook_find(b1, name)
                      r  == Record_add_phone(b1[i].rec, phone.value)
                  IN  IF r.exc # "" THEN [ret |-> r.exc, book |-> b1]
                      ELSE [ret |-> IF found THEN "Contact updated." ELSE "Contact added.",
                            book |-> [b1 EXCEPT ![i].rec = r.rec]]

\* change_contact editing the last stored phone
change_contact_last(b, name, new_phone) ==
    LET p == Phone(new_phone)
    IN
    IF p.exc # "" THEN [ret |-> p.exc, book |-> b]
    ELSE LET i == AddressBook_find(b, name)
         IN  IF i = 0 THEN [ret |-> "Contact not found.", book |-> b]
             ELSE IF Len(b[i].rec.phones) = 0
                  THEN [ret |-> "No phone numbers to change.", book |-> b]
                  ELSE LET r == Record_edit_phone(b[i].rec,
                                    b[i].rec.phones[Len(b[i].rec.phones)],
                                    p.value)
                       IN  IF r.exc # "" THEN [ret |-> r.exc, book |-> b]
                           ELSE [ret |-> "Contact updated.",
                                 book |-> [b EXCEPT ![i].rec = r.rec]]

\* change_contact(book, name, new_phone): [ret, book]
change_contact(b, name, new_phone) ==
    LET p == Phone(new_phone)
    IN
    IF p.exc # "" THEN [ret |-> p.exc, book |-> b]
    ELSE LET i == AddressBook_find(b, name)
         IN  IF i = 0 THEN [ret |-> "Contact not found.", book |-> b]
             ELSE IF Len(b[i].rec.phones) = 0
                  THEN [ret |-> "No phone numbers to change.", book |-> b]
                  ELSE LET r == Record_edit_phone(b[i].rec, b[i].rec.phones[1],
                                                  p.value)
                       IN  IF r.exc # "" THEN [ret |-> r.exc, book |-> b]
                           ELSE [ret |-> "Contact updated.",
                                 book |-> [b EXCEPT ![i].rec = r.rec]]

\* add_birthday(book, name, birthday): [ret, book]
add_birthday(b, name, birthday) ==
    LET i == AddressBook_find(b, name)
    IN  IF i = 0 THEN [ret |-> "Contact not found.", book |-> b]
        ELSE LET r == Record_add_birthday(b[i].rec, birthday)
             IN  IF r.exc # "" THEN [ret |-> r.exc, book |-> b]
                 ELSE [ret |-> "Birthday added/updated.",
                       book |-> [b EXCEPT ![i].rec = r.rec]]

----------------------------------------------------------------------------
(* The book driven through add_record, delete and the command handlers     *)

BookPhoneArgs == {P1, P2, ShortPhone}

BookDateArgs == {Jan10, Feb31, ShortDate}

\* the objects handed to add_record: fresh records, records that already
\* hold a phone, and something that is not a Record
RecordObjs ==
    {RecordObj(Record(n)) : n \in Names}
      \cup {RecordObj(Record_add_phone(Record(n), P2).rec) : n \in Names}
      \cup {StrObj}

ArgLists ==
    {<<>>} \cup {<<n>> : n \in Names} \cup {<<n, p>> : n \in Names, p \in BookPhoneArgs}

\* no record of the book exceeds the explored phone-list length
WithinBounds(b) == \A i \in 1..Len(b) : Len(b[i].rec.phones) <= MaxPhones

Init ==
    /\ book = <<>>
    /\ rec = Record(Al)
    /\ last = NoCall
    /\ pc = "loop"
    /\ line = <<>>
    /\ out = NoOut
    /\ today = TodayFirst
    /\ days = 0
    /\ result = NoResult

AddRecord(obj) ==
    /\ LET r == AddressBook_add_record(book, obj)
       IN  /\ book' = r.book
           /\ last' = Call("add_record", 1, obj.val.name, <<>>, <<>>, obj.val, r.exc)
    /\ UNCHANGED <<rec, pc, line, out, today, days, result>>

Delete(name) ==
    /\ book' = AddressBook_delete(book, name)
    /\ last' = Call("delete", 1, name, <<>>, <<>>, Record(<<>>), "")
    /\ UNCHANGED <<rec, pc, line, out, today, days, result>>

AddContact(args) ==
    /\ LET r == add_contact(args, book)
       IN  /\ WithinBounds(r.book)
           /\ book' = r.book
           /\ last' = Call("add_contact", Len(args),
                           IF Len(args) >= 1 THEN args[1] ELSE <<>>,
                           IF Len(args) >= 2 THEN args[2] ELSE <<>>,
                           <<>>, Record(<<>>), r.ret)
    /\ UNCHANGED <<rec, pc, line, out, today, days, result>>

ChangeContact(name, new_phone) ==
    /\ LET r == change_contact(book, name, new_phone)
       IN  /\ book' = r.book
           /\ last' = Call("change_contact", 2, name, new_phone, <<>>, Record(<<>>), r.ret)
    /\ UNCHANGED <<rec, pc, line, out, today, days, result>>

AddBirthday(name, birthday) ==
    /\ LET r == add_birthday(book, name, birthday)
       IN  /\ book' = r.book
           /\ last' = Call("add_birthday", 2, name, birthday, <<>>, Record(<<>>), r.ret)
    /\ UNCHANGED <<rec, pc, line, out, today, days, result>>

Next ==
    \/ \E obj \in RecordObjs : AddRecord(obj)
    \/ \E n \in Names : Delete(n)
    \/ \E args \in ArgLists : AddContact(args)
    \/ \E n \in Names, p \in BookPhoneArgs : ChangeContact(n, p)
    \/ \E n \in Names, d \in BookDateArgs : AddBirthday(n, d)

Spec == Init /\ [][Next]_vars

\* a string of exactly 10 decimal digits
TenDigits(x) == Len(x) = 10 /\ \A k \in 1..Len(x) : x[k] \in Digits

\* a string DD.MM.YYYY that names a calendar date
IsDateString(x) ==
    /\ Len(x) = 10
    /\ x[3] = "." /\ x[6] = "."
    /\ \A k \in {1, 2, 4, 5, 7, 8, 9, 10} : x[k] \in Digits
    /\ LET d == DecVal(SubSeq(x, 1, 2))
           m == DecVal(SubSeq(x, 4, 5))
           y == DecVal(SubSeq(x, 7, 10))
       IN  y >= 1 /\ m \in 1..12 /\ d >= 1 /\ d <= DaysInMonth(y, m)

\* the records stored under name n
RecordsOf(b, n) == {b[i].rec : i \in {k \in 1..Len(b) : b[k].key = n}}

\* C6: add_contact with a valid phone creates a record holding exactly that
\* phone when the name is new, and otherwise appends the phone at the end of
\* the existing record's list, keeping the earlier phones and the number of
\* records.
C6_AddFlow ==
    [][(last'.op = "add_contact" /\ last'.argc >= 2 /\ TenDigits(last'.a1)) =>
         LET n == last'.name
             p == last'.a1
         IN  IF \A i \in 1..Len(book) : book[i].key # n
             THEN /\ Len(book') = Len(book) + 1
                  /\ \A i \in 1..Len(book) : book'[i] = book[i]
                  /\ book'[Len(book')].key = n
                  /\ book'[Len(book')].rec.phones = <<p>>
             ELSE /\ Len(book') = Len(book)
                  /\ \A i \in 1..Len(book) :
                        IF book[i].key = n
                        THEN /\ book'[i].key = n
                             /\ book'[i].rec.phones = book[i].rec.phones \o <<p>>
                        ELSE book'[i] = book[i]]_vars

\* the add-flow appended a duplicate phone to an existing record
C6_Witness ==
    /\ last.op = "add_contact" /\ last.res = "Contact updated."
    /\ \E i \in 1..Len(book) :
          /\ book[i].key = last.name
          /\ Len(book[i].rec.phones) = 2
          /\ book[i].rec.phones[2] = last.a1
          /\ book[i].rec.phones[1] # last.a1

\* C7: the book holds at most one record per name and every key is the name
\* of the record stored under it; add_record replaces the entry of a name
\* already present with the new record and leaves all other names alone.
C7_OneRecordPerName ==
    /\ [](/\ \A i, j \in 1..Len(book) : book[i].key = book[j].key => i = j
          /\ \A i \in 1..Len(book) : book[i].key = book[i].rec.name)
    /\ [][(last'.op = "add_record" /\ last'.res = "") =>
            /\ RecordsOf(book', last'.name) = {last'.obj}
            /\ \A n \in Names : n # last'.name => RecordsOf(book', n) = RecordsOf(book, n)
            /\ (RecordsOf(book, last'.name) # {} => Len(book') = Len(book))]_vars

\* add_record overwrote the first of two entries with a record that holds a
\* phone
C7_Witness ==
    /\ last.op = "add_record" /\ last.res = ""
    /\ Len(book) = 2
    /\ book[1].key = last.name
    /\ book[1].rec = last.obj
    /\ Len(last.obj.phones) = 1

\* C8: a handler whose field validation fails leaves the book unchanged:
\* add_contact with an illegal phone, add_birthday with an invalid date,
\* change_contact with an illegal new phone.
C8_FailedValidationNoChange ==
    [][/\ (last'.op = "add_contact" /\ last'.argc >= 2 /\ ~TenDigits(last'.a1))
             => book' = book
       /\ (last'.op = "add_birthday" /\ ~IsDateString(last'.a1)) => book' = book
       /\ (last'.op = "change_contact" /\ ~TenDigits(last'.a1)) => book' = book]_vars

\* add_birthday was refused on a record that holds phones and an earlier
\* birthday
C8_Witness ==
    /\ last.op = "add_birthday" /\ ~IsDateString(last.a1)
    /\ last.res = "Invalid date format. Use DD.MM.YYYY"
    /\ \E i \in 1..Len(book) :
          /\ book[i].key = last.name
          /\ book[i].rec.birthday # None
          /\ Len(book[i].rec.phones) > 0

\* C9: change_contact on an existing contact with a valid new phone replaces
\* the phone at position 0 and nothing else; on an absent name it reports
\* "Contact not found." and the book is unchanged.
C9_ChangeFirstPhoneOnly ==
    [][(last'.op = "change_contact" /\ TenDigits(last'.a1)) =>
         LET n == last'.name
             p == last'.a1
         IN  IF \A i \in 1..Len(book) : book[i].key # n
             THEN last'.res = "Contact not found." /\ book' = book
             ELSE /\ Len(book') = Len(book)
                  /\ \A i \in 1..Len(book) :
                        IF book[i].key = n
                        THEN /\ book'[i].key = n
                             /\ book'[i].rec.name = book[i].rec.name
                             /\ book'[i].rec.birthday = book[i].rec.birthday
                             /\ Len(book'[i].rec.phones) = Len(book[i].rec.phones)
                             /\ \A k \in 1..Len(book[i].rec.phones) :
                                   book'[i].rec.phones[k] =
                                       IF k = 1 THEN p ELSE book[i].rec.phones[k]
                        ELSE book'[i] = book[i]]_vars

\* the change replaced the first of two phones of a contact with a birthday,
\* in a book of two contacts
C9_Witness ==
    /\ last.op = "change_contact" /\ last.res = "Contact updated."
    /\ Len(book) = 2
    /\ \E i \in 1..Len(book) :
          /\ book[i].key = last.name
          /\ book[i].rec.birthday # None
          /\ Len(book[i].rec.phones) = 2
          /\ book[i].rec.phones[1] = last.a1
          /\ book[i].rec.phones[2] # last.a1

----------------------------------------------------------------------------
(* The upcoming-birthday query                                             *)

\* adjust_for_weekend moving a Saturday one day only
adjust_for_weekend_one_day(date) ==
    LET wd == Weekday(date)
    IN  IF wd = 5 THEN AddDays(date, 1)
        ELSE IF wd = 6 THEN AddDays(date, 1)
        ELSE date

\* AddressBook.adjust_for_weekend(date)
adjust_for_weekend(date) ==
    LET wd == Weekday(date)
    IN  IF wd = 5 THEN AddDays(date, 2)
        ELSE IF wd = 6 THEN AddDays(date, 1)
        ELSE date

\* today + timedelta(days=n): [exc, ord]; both the timedelta and the sum
\* raise OverflowError out of range
TimedeltaAdd(t, n) ==
    IF n > 999999999 \/ n < -999999999
    THEN [exc |-> "Python int too large to convert to C int", ord |-> 0]
    ELSE IF ToOrdinal(t) + n < 1 \/ ToOrdinal(t) + n > MAXORDINAL
         THEN [exc |-> "date value out of range", ord |-> 0]
         ELSE [exc |-> "", ord |-> ToOrdinal(t) + n]

\* the loop of get_upcoming_birthdays from entry i on, acc the list so far
RECURSIVE UpcomingFrom(_, _, _, _, _)
UpcomingFrom(b, i, t, n, acc) ==
    IF i > Len(b) THEN [etype |-> "", exc |-> "", list |-> acc]
    ELSE IF b[i].rec.birthday = None THEN UpcomingFrom(b, i + 1, t, n, acc)
    ELSE
      LET this == Replace(b[i].rec.birthday, t.year)
      IN  IF this.exc # ""
          THEN [etype |-> "ValueError", exc |-> this.exc, list |-> <<>>]
          ELSE
            LET occ == IF DateLess(this.value, t)
                       THEN Replace(this.value, t.year + 1)
                       ELSE this
            IN  IF occ.exc # ""
                THEN [etype |-> "ValueError", exc |-> occ.exc, list |-> <<>>]
                ELSE
                  LET shifted == ToOrdinal(adjust_for_weekend(occ.value))
                      upto    == TimedeltaAdd(t, n)
                  IN  IF ~(ToOrdinal(t) <= shifted)
                      THEN UpcomingFrom(b, i + 1, t, n, acc)
                      ELSE IF upto.exc # ""
                      THEN [etype |-> "OverflowError", exc |-> upto.exc, list |-> <<>>]
                      ELSE IF shifted <= upto.ord
                      THEN UpcomingFrom(b, i + 1, t, n,
                               Append(acc, [name |-> b[i].rec.name,
                                            birthday |-> Strftime(FromOrdinal(shifted))]))
                      ELSE UpcomingFrom(b, i + 1, t, n, acc)

\* book.get_upcoming_birthdays(days) read at date t: [etype, exc, list]
get_upcoming_birthdays(b, t, n) == UpcomingFrom(b, 1, t, n, <<>>)

Dec26 == <<"2", "6", ".", "1", "2", ".", "1", "9", "9", "5">>
Dec31 == <<"3", "1", ".", "1", "2", ".", "1", "9", "9", "9">>
Jan06 == <<"0", "6", ".", "0", "1", ".", "1", "9", "8", "8">>
BDateArgs == {Jan10, Feb29, Dec26, Dec31, Jan06}

\* records as add_contact and add_birthday leave them
BDRecords ==
    {Record(n) : n \in Names}
      \cup {Record_add_birthday(Record(n), d).rec : n \in Names, d \in BDateArgs}

\* books of up to two records, built by add_record
BDBooks ==
    {<<>>}
      \cup {AddressBook_add_record(
                AddressBook_add_record(<<>>, RecordObj(r1)).book, RecordObj(r2)).book :
              r1 \in BDRecords, r2 \in BDRecords}

InitBD ==
    /\ book \in BDBooks
    /\ rec = Record(Al)
    /\ last = NoCall
    /\ pc = "loop"
    /\ line = <<>>
    /\ out = NoOut
    /\ today = TodayFirst
    /\ days = 0
    /\ result = NoResult

\* the calendar moves on one day; the last answer no longer describes today
Tick ==
    /\ ToOrdinal(today) < ToOrdinal(TodayFirst) + TodaySpan
    /\ today' = AddDays(today, 1)
    /\ days' = 0
    /\ result' = NoResult
    /\ last' = NoCall
    /\ UNCHANGED <<rec, book, pc, line, out>>

Query(n) ==
    /\ days' = n
    /\ result' = get_upcoming_birthdays(book, today, n)
    /\ last' = Call("get_upcoming_birthdays", 1, <<>>, <<>>, <<>>, Record(<<>>), "")
    /\ UNCHANGED <<rec, book, pc, line, out, today>>

NextBD ==
    \/ Tick
    \/ \E n \in 0..MaxDays : Query(n)

SpecBD == InitBD /\ [][NextBD]_vars

\* the date a DD.MM.YYYY string names
DateOf(x) ==
    [year |-> DecVal(SubSeq(x, 7, 10)), month |-> DecVal(SubSeq(x, 4, 5)),
     day |-> DecVal(SubSeq(x, 1, 2))]

\* this year's occurrence of the birthday's month/day, next year's when this
\* year's lies before t
Occurrence(bd, t) ==
    IF bd.month > t.month \/ (bd.month = t.month /\ bd.day >= t.day)
    THEN [year |-> t.year, month |-> bd.month, day |-> bd.day]
    ELSE [year |-> t.year + 1, month |-> bd.month, day |-> bd.day]

\* the occurrence is a date of the calendar
OccurrenceExists(bd, t) ==
    Occurrence(bd, t).day <= DaysInMonth(Occurrence(bd, t).year, Occurrence(bd, t).month)

\* the occurrence after the weekend shift, as an ordinal
ShiftedOrdinal(bd, t) ==
    LET o == ToOrdinal(Occurrence(bd, t))
    IN  IF o % 7 = 6 THEN o + 2 ELSE IF o % 7 = 0 THEN o + 1 ELSE o

QueryDone == last.op = "get_upcoming_birthdays"

\* the entries of the answer that name n
EntriesOf(n) ==
    IF result.exc # "" THEN {}
    ELSE {k \in 1..Len(result.list) : result.list[k].name = n}

\* C3: a record with a birthday is in the answer iff its occurrence, after
\* the weekend shift, lies in [today, today + days], and the date reported is
\* that shifted date; a record without a birthday is never in the answer.
C3_InWindowIff ==
    QueryDone =>
      \A i \in 1..Len(book) :
        LET r == book[i].rec
        IN  IF r.birthday = None THEN EntriesOf(r.name) = {}
            ELSE OccurrenceExists(r.birthday, today) =>
                   /\ (EntriesOf(r.name) # {}) <=>
                        /\ ToOrdinal(today) <= ShiftedOrdinal(r.birthday, today)
                        /\ ShiftedOrdinal(r.birthday, today) <= ToOrdinal(today) + days
                   /\ \A k \in EntriesOf(r.name) :
                        ToOrdinal(DateOf(result.list[k].birthday)) =
                            ShiftedOrdinal(r.birthday, today)

\* C4: every date in the answer is a Monday to Friday: a Saturday occurrence
\* is reported 2 days later, a Sunday occurrence 1 day later, any other
\* unchanged.
C4_WeekdaysOnly ==
    (QueryDone /\ result.exc = "") =>
      \A k \in 1..Len(result.list) :
        \A i \in 1..Len(book) :
          book[i].key = result.list[k].name =>
            LET o == ToOrdinal(Occurrence(book[i].rec.birthday, today))
                d == ToOrdinal(DateOf(result.list[k].birthday))
            IN  /\ d % 7 \in 1..5
                /\ (o % 7 = 6 => d = o + 2)
                /\ (o % 7 = 0 => d = o + 1)
                /\ (o % 7 \in 1..5 => d = o)

\* the answer holds a birthday that fell on a Saturday, reported as the Monday
C4_Witness ==
    /\ QueryDone /\ result.exc = ""
    /\ \E k \in 1..Len(result.list) :
         \E i \in 1..Len(book) :
            /\ book[i].key = result.list[k].name
            /\ ToOrdinal(Occurrence(book[i].rec.birthday, today)) % 7 = 6
            /\ ToOrdinal(DateOf(result.list[k].birthday)) % 7 = 1

\* C10: with every stored birthday a valid calendar date, the query completes
\* without error, with at most one entry per record and the entries in the
\* book's insertion order.
C10_CompletesInOrder ==
    QueryDone =>
      /\ result.exc = ""
      /\ \A k1, k2 \in 1..Len(result.list) :
           k1 < k2 =>
             KeyIndex(book, result.list[k1].name) < KeyIndex(book, result.list[k2].name)
      /\ \A k \in 1..Len(result.list) : KeyIndex(book, result.list[k].name) # 0

----------------------------------------------------------------------------
(* The command loop                                                        *)

\* str.lower() on one character
LowerChar(c) ==
    IF \E i \in 1..26 : UpperLetters[i] = c
    THEN LowerLetters[CHOOSE i \in 1..26 : UpperLetters[i] = c]
    ELSE c

\* str.lower()
Lower(x) == [i \in 1..Len(x) |-> LowerChar(x[i])]

IsSpace(c) == c = " "

\* str.strip()
RECURSIVE Strip(_)
Strip(x) ==
    IF Len(x) = 0 THEN x
    ELSE IF IsSpace(x[1]) THEN Strip(Tail(x))
    ELSE IF IsSpace(x[Len(x)]) THEN Strip(SubSeq(x, 1, Len(x) - 1))
    ELSE x

\* str.split(): the maximal runs of non-space characters
RECURSIVE Split(_)
Split(x) ==
    IF Len(x) = 0 THEN <<>>
    ELSE IF IsSpace(x[1]) THEN Split(Tail(x))
    ELSE LET ends == {i \in 1..Len(x) : \A j \in 1..i : ~IsSpace(x[j])}
             e    == CHOOSE i \in ends : \A j \in ends : j <= i
         IN  <<SubSeq(x, 1, e)>> \o Split(SubSeq(x, e + 1, Len(x)))

\* parse_input(user_input)
parse_input(user_input) == Split(Strip(Lower(user_input)))

\* sep.join(items)
RECURSIVE Join(_, _)
Join(items, sep) ==
    IF Len(items) = 0 THEN <<>>
    ELSE IF Len(items) = 1 THEN items[1]
    ELSE items[1] \o sep \o Join(Tail(items), sep)

\* int(token): [exc, value]; an optional sign and decimal digits
IntParse(tok) ==
    LET body == IF Len(tok) > 0 /\ tok[1] \in {"+", "-"} THEN Tail(tok) ELSE tok
    IN  IF Len(body) > 0 /\ AllDigits(body)
        THEN [exc |-> "",
              value |-> IF tok[1] = "-" THEN 0 - DecVal(body) ELSE DecVal(body)]
        ELSE [exc |-> "invalid literal for int() with base 10", value |-> 0]

Cmd_close == <<"c", "l", "o", "s", "e">>
Cmd_exit == <<"e", "x", "i", "t">>
Cmd_stop == <<"s", "t", "o", "p">>
Cmd_hello == <<"h", "e", "l", "l", "o">>
Cmd_add == <<"a", "d", "d">>
Cmd_change == <<"c", "h", "a", "n", "g", "e">>
Cmd_phone == <<"p", "h", "o", "n", "e">>
Cmd_all == <<"a", "l", "l">>
Cmd_add_birthday == <<"a", "d", "d", "-", "b", "i", "r", "t", "h", "d", "a", "y">>
Cmd_show_birthday == <<"s", "h", "o", "w", "-", "b", "i", "r", "t", "h", "d", "a", "y">>
Cmd_birthdays == <<"b", "i", "r", "t", "h", "d", "a", "y", "s">>
Txt_contact_name == <<"C", "o", "n", "t", "a", "c", "t", " ", "n", "a", "m", "e", ":", " ">>
Txt_phones == <<",", " ", "p", "h", "o", "n", "e", "s", ":", " ">>
Txt_birthday == <<",", " ", "b", "i", "r", "t", "h", "d", "a", "y", ":", " ">>
Txt_s_birthday == <<"'", "s", " ", "b", "i", "r", "t", "h", "d", "a", "y", ":", " ">>

Text(m) == [kind |-> "text", msg |-> m, data |-> <<>>, entries |-> <<>>]

Computed(ls) == [kind |-> "text", msg |-> "", data |-> ls, entries |-> <<>>]

Listing(es) == [kind |-> "list", msg |-> "", data |-> <<>>, entries |-> es]

Traceback(m) == [kind |-> "traceback", msg |-> m, data |-> <<>>, entries |-> <<>>]

\* Record.__str__
RecordStr(r) ==
    Txt_contact_name \o r.name \o Txt_phones \o Join(r.phones, <<";", " ">>)
      \o (IF r.birthday # None THEN Txt_birthday \o Strftime(r.birthday) ELSE <<>>)

\* show_phone(book, name)
show_phone(b, name) ==
    LET i == AddressBook_find(b, name)
    IN  IF i # 0 THEN Computed(<<Join(b[i].rec.phones, <<",", " ">>)>>)
        ELSE Text("Contact not found.")

\* show_all(book)
show_all(b) ==
    IF Len(b) = 0 THEN Text("Contact list is empty.")
    ELSE Computed([i \in 1..Len(b) |-> RecordStr(b[i].rec)])

\* show_birthday(book, name)
show_birthday(b, name) ==
    LET i == AddressBook_find(b, name)
    IN  IF i = 0 THEN Text("Contact not found.")
        ELSE IF b[i].rec.birthday = None THEN Text("Birthday information not found.")
        ELSE Computed(<<b[i].rec.name \o Txt_s_birthday \o Strftime(b[i].rec.birthday)>>)

\* birthdays(book, days) read at date t: [raised, out]; input_error turns the
\* exceptions it catches into their message and lets the others through
birthdays(b, t, n) ==
    LET r == get_upcoming_birthdays(b, t, n)
    IN  IF r.exc # ""
        THEN (IF r.etype \in Caught
              THEN [raised |-> FALSE, out |-> Text(r.exc)]
              ELSE [raised |-> TRUE, out |-> Traceback(r.etype)])
        ELSE IF Len(r.list) > 0
        THEN [raised |-> FALSE,
              out |-> Listing([k \in 1..Len(r.list) |->
                                  [name |-> r.list[k].name,
                                   congratulation_date |-> r.list[k].birthday]])]
        ELSE [raised |-> FALSE, out |-> Text("No upcoming birthdays.")]

\* one turn of main's loop, given user_input.strip() and
\* parse_input(user_input), the clock reading t: [pc, out, book]
Turn(stripped, tokens, b, t) ==
    IF stripped = <<>>
    THEN [pc |-> "loop", out |-> Text("Please enter a command."), book |-> b]
    ELSE
      LET command == tokens[1]
          args    == Tail(tokens)
          say(o)  == [pc |-> "loop", out |-> o, book |-> b]
      IN  IF command \in {Cmd_close, Cmd_exit, Cmd_stop}
          THEN [pc |-> "exited", out |-> Text("Goodbye!"), book |-> b]
          ELSE IF command = Cmd_hello THEN say(Text("How can I help you?"))
          ELSE IF command = Cmd_add
          THEN LET r == add_contact(args, b)
               IN  [pc |-> "loop", out |-> Text(r.ret), book |-> r.book]
          ELSE IF command = Cmd_change
          THEN IF Len(args) < 2
               THEN say(Text("Please provide a contact name and the new phone number."))
               ELSE LET r == change_contact(b, args[1], args[2])
                    IN  [pc |-> "loop", out |-> Text(r.ret), book |-> r.book]
          ELSE IF command = Cmd_phone
          THEN IF Len(args) > 0 THEN say(show_phone(b, args[1]))
               ELSE say(Text("Please provide a contact name for the phone command."))
          ELSE IF command = Cmd_all THEN say(show_all(b))
          ELSE IF command = Cmd_add_birthday
          THEN IF Len(args) < 2
               THEN say(Text("Please provide both a contact name and a birthday."))
               ELSE LET r == add_birthday(b, args[1], args[2])
                    IN  [pc |-> "loop", out |-> Text(r.ret), book |-> r.book]
          ELSE IF command = Cmd_show_birthday
          THEN IF Len(args) > 0 THEN say(show_birthday(b, args[1]))
               ELSE say(Text("Please provide a contact name for the show-birthday command."))
          ELSE IF command = Cmd_birthdays
          THEN LET n == IF Len(args) > 0 THEN IntParse(args[1])
                        ELSE [exc |-> "", value |-> 7]
               IN  IF n.exc # ""
                   THEN [pc |-> "crashed", out |-> Traceback("ValueError"), book |-> b]
                   ELSE LET r == birthdays(b, t, n.value)
                        IN  [pc |-> IF r.raised THEN "crashed" ELSE "loop",
                             out |-> r.out, book |-> b]
          ELSE say(Text("Invalid command. Please try again."))

Line01 == <<"h", "e", "l", "l", "o">>
Line02 == <<"a", "d", "d", " ", "a", "l", " ", "1", "2", "3", "4", "5", "6", "7", "8", "9", "0">>
Line03 == <<"a", "d", "d", " ", "a", "l", " ", "0", "9", "8", "7", "6", "5", "4", "3", "2", "1">>
Line04 == <<"a", "d", "d", " ", "b", "o", " ", "0", "9", "8", "7", "6", "5", "4", "3", "2", "1">>
Line05 == <<"a", "d", "d", " ", "a", "l", " ", "1", "2", "3", "4", "5">>
Line06 == <<"a", "d", "d", " ", "a", "l">>
Line07 == <<"c", "h", "a", "n", "g", "e", " ", "a", "l", " ", "0", "9", "8", "7", "6", "5", "4", "3", "2", "1">>
Line08 == <<"c", "h", "a", "n", "g", "e", " ", "a", "l", " ", "1", "2", "3", "4", "5">>
Line09 == <<"c", "h", "a", "n", "g", "e", " ", "b", "o">>
Line10 == <<"c", "h", "a", "n", "g", "e", " ", "b", "o", " ", "0", "9", "8", "7", "6", "5", "4", "3", "2", "1">>
Line11 == <<"p", "h", "o", "n", "e", " ", "a", "l">>
Line12 == <<"p", "h", "o", "n", "e">>
Line13 == <<"a", "l", "l">>
Line14 == <<"a", "d", "d", "-", "b", "i", "r", "t", "h", "d", "a", "y", " ", "a", "l", " ", "0", "6", ".", "0", "1", ".", "1", "9", "8", "8">>
Line15 == <<"a", "d", "d", "-", "b", "i", "r", "t", "h", "d", "a", "y", " ", "a", "l", " ", "2", "9", ".", "0", "2", ".", "2", "0", "0", "0">>
Line16 == <<"a", "d", "d", "-", "b", "i", "r", "t", "h", "d", "a", "y", " ", "a", "l", " ", "3", "1", ".", "0", "2", ".", "2", "0", "0", "0">>
Line17 == <<"a", "d", "d", "-", "b", "i", "r", "t", "h", "d", "a", "y", " ", "a", "l">>
Line18 == <<"a", "d", "d", "-", "b", "i", "r", "t", "h", "d", "a", "y", " ", "z", "e", "d", " ", "0", "6", ".", "0", "1", ".", "1", "9", "8", "8">>
Line19 == <<"s", "h", "o", "w", "-", "b", "i", "r", "t", "h", "d", "a", "y", " ", "a", "l">>
Line20 == <<"s", "h", "o", "w", "-", "b", "i", "r", "t", "h", "d", "a", "y">>
Line21 == <<"b", "i", "r", "t", "h", "d", "a", "y", "s">>
Line22 == <<"b", "i", "r", "t", "h", "d", "a", "y", "s", " ", "3">>
Line23 == <<"b", "i", "r", "t", "h", "d", "a", "y", "s", " ", "-", "1">>
Line24 == <<"b", "i", "r", "t", "h", "d", "a", "y", "s", " ", "a", "b", "c">>
Line25 == <<"b", "i", "r", "t", "h", "d", "a", "y", "s", " ", "9", "9", "9", "9", "9", "9", "9">>
Line26 == <<"c", "l", "o", "s", "e">>
Line27 == <<"E", "X", "I", "T">>
Line28 == <<"s", "t", "o", "p", " ", "n", "o", "w">>
Line29 == <<"f", "o", "o">>
Line30 == <<>>
Line31 == <<" ">>
Line32 == <<" ", " ", "A", "d", "d", " ", " ", "A", "l", " ", "1", "2", "3", "4", "5", "6", "7", "8", "9", "0", " ">>

Lines ==
    {Line01, Line02, Line03, Line04, Line05, Line06, Line07, Line08,
     Line09, Line10, Line11, Line12, Line13, Line14, Line15, Line16,
     Line17, Line18, Line19, Line20, Line21, Line22, Line23, Line24,
     Line25, Line26, Line27, Line28, Line29, Line30, Line31, Line32}

\* the dates the clock shows when the loop asks for it
MainTodays == {TodayFirst, [year |-> 2024, month |-> 1, day |-> 5]}

\* user_input.strip() and parse_input(user_input) of every line, computed once
StripOf == [l \in Lines |-> Strip(l)]

TokensOf == [l \in Lines |-> parse_input(l)]

\* the line asks for the birthday query
AsksClock(user_input) ==
    /\ StripOf[user_input] # <<>>
    /\ TokensOf[user_input][1] = Cmd_birthdays

InitMain ==
    /\ book = <<>>
    /\ rec = Record(Al)
    /\ last = NoCall
    /\ pc = "loop"
    /\ line = <<>>
    /\ out = NoOut
    /\ today = TodayFirst
    /\ days = 0
    /\ result = NoResult

ReadLine(user_input) ==
    /\ pc = "loop"
    /\ \E t \in (IF AsksClock(user_input) THEN MainTodays ELSE {today}) :
         LET r == Turn(StripOf[user_input], TokensOf[user_input], book, t)
         IN  /\ WithinBounds(r.book)
             /\ pc' = r.pc
             /\ out' = r.out
             /\ book' = r.book
             /\ today' = t
    /\ line' = user_input
    /\ last' = Call("input", 1, <<>>, <<>>, <<>>, Record(<<>>), "")
    /\ UNCHANGED <<rec, days, result>>

NextMain == \E l \in Lines : ReadLine(l)

SpecMain == InitMain /\ [][NextMain]_vars

\* C5: every line whose command is not close, exit or stop is answered with
\* a plain text message and the loop reads the next line; the process never
\* ends with an uncaught error and ends only on close, exit or stop.
C5_LoopNeverCrashes ==
    last.op = "input" =>
      LET tokens == TokensOf[line]
          quits  == tokens # <<>> /\ tokens[1] \in {Cmd_close, Cmd_exit, Cmd_stop}
      IN  /\ pc # "crashed"
          /\ (pc = "exited" => quits)
          /\ (~quits => pc = "loop" /\ out.kind \in {"text", "list"})

====
